---- MODULE Spec2Model ----
(***************************************************************************)
(* Model of the Askar backend of didcomm-messaging:                        *)
(*   - AskarKey (key identity, multikey, from_verification_method)         *)
(*   - AskarCryptoService (ECDH-ES / ECDH-1PU envelope encrypt / decrypt)  *)
(* Strings and byte strings are sequences of character / byte codes.       *)
(* The primitive library (aries_askar) is modelled symbolically: a wrapped  *)
(* key or a ciphertext is a record of what went into it, and unwrapping or  *)
(* decrypting succeeds exactly when the same inputs are presented again.    *)
(***************************************************************************)
EXTENDS Integers, Sequences, FiniteSets, TLC

(***************************************************************************)
(* Bounds of the model.                                                    *)
(***************************************************************************)
\* largest number of entries of a recipient mapping handed to encryption
MaxRecipients == 2
\* largest number of envelope fields altered between encryption and decryption
MaxTamper == 1

(***************************************************************************)
(* Strings.                                                                *)
(***************************************************************************)
\* '#', the fragment marker tested by ident.startswith("#")
HASH == 35
\* '.', the separator of the kids joined into apv
DOT == 46
\* length of a decoded multibase value that is taken to be a raw key
RawKeyLen == 32

\* Python str.startswith for a one-character prefix
StartsWith(s, c) == Len(s) >= 1 /\ s[1] = c

RECURSIVE StrLessFrom(_, _, _)
StrLessFrom(a, b, i) ==
    IF i > Len(a) THEN i <= Len(b)
    ELSE IF i > Len(b) THEN FALSE
    ELSE IF a[i] # b[i] THEN a[i] < b[i]
    ELSE StrLessFrom(a, b, i + 1)

\* Python's order on str: lexicographic by code point
StrLess(a, b) == StrLessFrom(a, b, 1)

RECURSIVE Insert(_, _)
Insert(sorted, s) ==
    IF sorted = <<>> THEN <<s>>
    ELSE IF StrLess(s, Head(sorted)) THEN <<s>> \o sorted
    ELSE <<Head(sorted)>> \o Insert(Tail(sorted), s)

RECURSIVE SortStrings(_)
\* list.sort() on a list of str
SortStrings(l) ==
    IF l = <<>> THEN <<>>
    ELSE Insert(SortStrings(SubSeq(l, 1, Len(l) - 1)), l[Len(l)])

RECURSIVE Join(_, _)
\* sep.join(l)
Join(sep, l) ==
    IF l = <<>> THEN <<>>
    ELSE IF Len(l) = 1 THEN l[1]
    ELSE l[1] \o sep \o Join(sep, Tail(l))

(***************************************************************************)
(* Positional number conversion, used by base58btc.                        *)
(***************************************************************************)
RECURSIVE StripZeros(_)
StripZeros(ds) ==
    IF ds # <<>> /\ Head(ds) = 0 THEN StripZeros(Tail(ds)) ELSE ds

RECURSIVE LeadingCount(_, _)
LeadingCount(ds, d) ==
    IF ds # <<>> /\ Head(ds) = d THEN 1 + LeadingCount(Tail(ds), d) ELSE 0

RECURSIVE DivRem(_, _, _, _, _, _)
\* long division of the number with digits ds (base from) by to
DivRem(ds, from, to, i, carry, q) ==
    IF i > Len(ds) THEN <<q, carry>>
    ELSE LET acc == carry * from + ds[i]
         IN DivRem(ds, from, to, i + 1, acc % to, Append(q, acc \div to))

RECURSIVE ToBase(_, _, _, _)
ToBase(ds, from, to, out) ==
    IF ds = <<>> THEN out
    ELSE LET r == DivRem(ds, from, to, 1, 0, <<>>)
         IN ToBase(StripZeros(r[1]), from, to, <<r[2]>> \o out)

ConvertBase(ds, from, to) == ToBase(StripZeros(ds), from, to, <<>>)

(***************************************************************************)
(* multibase / multicodec / b64url (didcomm_messaging.multiformats, .jwe). *)
(***************************************************************************)
\* "123456789ABCDEFGHJKLMNPQRSTUVWXYZabcdefghijkmnopqrstuvwxyz"
B58Alphabet ==
    <<49, 50, 51, 52, 53, 54, 55, 56, 57,
      65, 66, 67, 68, 69, 70, 71, 72, 74, 75, 76, 77, 78, 80, 81, 82, 83, 84,
      85, 86, 87, 88, 89, 90,
      97, 98, 99, 100, 101, 102, 103, 104, 105, 106, 107, 109, 110, 111, 112,
      113, 114, 115, 116, 117, 118, 119, 120, 121, 122>>

B58Index(c) == CHOOSE i \in 1..Len(B58Alphabet) : B58Alphabet[i] = c

IsB58(s) == \A i \in 1..Len(s) : \E j \in 1..Len(B58Alphabet) : B58Alphabet[j] = s[i]

\* base58btc text of a byte string
B58Encode(bytes) ==
    LET zeros == LeadingCount(bytes, 0)
        digits == ConvertBase(bytes, 256, 58)
    IN [i \in 1..zeros |-> B58Alphabet[1]]
         \o [i \in 1..Len(digits) |-> B58Alphabet[digits[i] + 1]]

\* byte string of a base58btc text
B58Decode(s) ==
    LET ones == LeadingCount(s, B58Alphabet[1])
        digits == [i \in 1..Len(s) |-> B58Index(s[i]) - 1]
    IN [i \in 1..ones |-> 0] \o ConvertBase(digits, 58, 256)

\* multibase prefix of base58btc, 'z'
MultibaseZ == <<122>>

\* multibase.encode(data, "base58btc")
MultibaseEncode(bytes) == MultibaseZ \o B58Encode(bytes)

\* multibase.decode accepts the text when its prefix names a known base
MultibaseValid(s) == Len(s) >= 1 /\ <<s[1]>> = MultibaseZ /\ IsB58(Tail(s))

\* multibase.decode(text)
MultibaseDecode(s) == B58Decode(Tail(s))

\* the multicodec registry entries this model knows: name and code
Codecs ==
    {[name |-> "ed25519-pub", code |-> 237],
     [name |-> "x25519-pub", code |-> 236],
     [name |-> "secp256k1-pub", code |-> 231],
     [name |-> "p256-pub", code |-> 4608]}

\* multicodec.multicodec(name)
CodecByName(name) == CHOOSE c \in Codecs : c.name = name

RECURSIVE VarintEncode(_)
\* unsigned LEB128
VarintEncode(n) ==
    IF n < 128 THEN <<n>> ELSE <<128 + (n % 128)>> \o VarintEncode(n \div 128)

RECURSIVE VarintLen(_, _)
\* number of bytes of the varint at the head of bytes, 0 when it never ends
VarintLen(bytes, i) ==
    IF i > Len(bytes) THEN 0
    ELSE IF bytes[i] < 128 THEN i
    ELSE VarintLen(bytes, i + 1)

RECURSIVE VarintValue(_, _)
VarintValue(bytes, n) ==
    IF n = 0 THEN 0 ELSE (bytes[1] % 128) + 128 * VarintValue(Tail(bytes), n - 1)

\* multicodec.wrap(codec, data)
MulticodecWrap(codec, bytes) == VarintEncode(codec.code) \o bytes

\* multicodec.unwrap succeeds when the data starts with the varint of a known codec
MulticodecValid(bytes) ==
    LET n == VarintLen(bytes, 1)
    IN n > 0 /\ \E c \in Codecs : c.code = VarintValue(bytes, n)

\* multicodec.unwrap(data): the codec and the rest of the data
MulticodecUnwrap(bytes) ==
    LET n == VarintLen(bytes, 1)
    IN [codec |-> CHOOSE c \in Codecs : c.code = VarintValue(bytes, n),
        data |-> SubSeq(bytes, n + 1, Len(bytes))]

RECURSIVE B64Groups(_)
\* base64 of a byte string as 6-bit values, without padding
B64Groups(bytes) ==
    IF bytes = <<>> THEN <<>>
    ELSE IF Len(bytes) = 1 THEN
        <<bytes[1] \div 4, (bytes[1] % 4) * 16>>
    ELSE IF Len(bytes) = 2 THEN
        <<bytes[1] \div 4, (bytes[1] % 4) * 16 + bytes[2] \div 16,
          (bytes[2] % 16) * 4>>
    ELSE
        <<bytes[1] \div 4, (bytes[1] % 4) * 16 + bytes[2] \div 16,
          (bytes[2] % 16) * 4 + bytes[3] \div 64, bytes[3] % 64>>
          \o B64Groups(SubSeq(bytes, 4, Len(bytes)))

\* the URL-safe alphabet: A-Z a-z 0-9 - _
B64UrlChar(v) ==
    IF v < 26 THEN 65 + v
    ELSE IF v < 52 THEN 97 + (v - 26)
    ELSE IF v < 62 THEN 48 + (v - 52)
    ELSE IF v = 62 THEN 45 ELSE 95

\* b64url(value): URL-safe base64 text of the value, padding stripped
b64url(s) == LET g == B64Groups(s) IN [i \in 1..Len(g) |-> B64UrlChar(g[i])]

(***************************************************************************)
(* Outcomes of a call: a returned value or a raised exception.             *)
(***************************************************************************)
Return(v) == [status |-> "return", exc |-> "", msg |-> "", value |-> v]

Raise(exc, msg) == [status |-> "raise", exc |-> exc, msg |-> msg, value |-> <<>>]

(***************************************************************************)
(* aries_askar key handles.                                                *)
(***************************************************************************)
\* a deterministic family of distinct byte strings standing for key material
RawKey(seed) == [i \in 1..RawKeyLen |-> (seed * 37 + i * 11) % 256]

\* public bytes of a key on the given curve: secp256k1 points are compressed
PubBytesFor(alg, seed) == IF alg = "k256" THEN <<2>> \o RawKey(seed) ELSE RawKey(seed)

\* Key.from_public_bytes(alg, data) accepts the data
FromPublicBytesOk(alg, bytes) ==
    CASE alg \in {"ed25519", "x25519"} -> Len(bytes) = RawKeyLen
      [] alg = "k256" -> Len(bytes) = RawKeyLen + 1 /\ bytes[1] \in {2, 3}
      [] OTHER -> FALSE

\* Key.from_public_bytes(alg, data)
FromPublicBytes(alg, bytes) == [algorithm |-> alg, public |-> bytes, secret |-> FALSE]

(***************************************************************************)
(* AskarKey.                                                               *)
(***************************************************************************)
codec_to_alg ==
    [c \in {"ed25519-pub", "x25519-pub", "secp256k1-pub"} |->
        CASE c = "ed25519-pub" -> "ed25519"
          [] c = "x25519-pub" -> "x25519"
          [] c = "secp256k1-pub" -> "k256"]

alg_to_codec ==
    [a \in {codec_to_alg[c] : c \in DOMAIN codec_to_alg} |->
        CHOOSE c \in DOMAIN codec_to_alg : codec_to_alg[c] = a]

type_to_alg ==
    [t \in {"Ed25519VerificationKey2018", "X25519KeyAgreementKey2019",
            "Ed25519VerificationKey2020", "X25519KeyAgreementKey2020",
            "EcdsaSecp256k1VerificationKey2019"} |->
        CASE t \in {"Ed25519VerificationKey2018", "Ed25519VerificationKey2020"} -> "ed25519"
          [] t \in {"X25519KeyAgreementKey2019", "X25519KeyAgreementKey2020"} -> "x25519"
          [] t = "EcdsaSecp256k1VerificationKey2019" -> "k256"]

\* AskarKey.__init__(key, kid)
AskarKeyInit(key, kid) ==
    IF key.algorithm \notin DOMAIN alg_to_codec
    THEN Raise("ValueError", "Unsupported key type")
    ELSE Return(<<[key |-> key, kid |-> kid,
                   multikey |-> MultibaseEncode(
                       MulticodecWrap(CodecByName(alg_to_codec[key.algorithm]),
                                      key.public))]>>)

\* AskarKey._multikey_to_key(multikey)
MultikeyToKey(multikey) ==
    IF ~MultibaseValid(multikey)
    THEN Raise("MultibaseError", "invalid multibase")
    ELSE LET decoded == MultibaseDecode(multikey) IN
    IF ~MulticodecValid(decoded)
    THEN Raise("MulticodecError", "unknown multicodec")
    ELSE LET u == MulticodecUnwrap(decoded) IN
    IF u.codec.name \notin DOMAIN codec_to_alg
    THEN Raise("ValueError", "Unsupported key type: {codec.name}")
    ELSE LET alg == codec_to_alg[u.codec.name] IN
    IF ~FromPublicBytesOk(alg, u.data)
    THEN Raise("ValueError", "Invalid key")
    ELSE Return(<<FromPublicBytes(alg, u.data)>>)

\* the multibase branch of AskarKey._expected_alg_and_material_to_key
MultibaseMaterialToKey(alg, public_key_multibase) ==
    IF ~MultibaseValid(public_key_multibase)
    THEN Raise("MultibaseError", "invalid multibase")
    ELSE LET decoded == MultibaseDecode(public_key_multibase) IN
    IF Len(decoded) = RawKeyLen
    THEN IF ~FromPublicBytesOk(alg, decoded)
         THEN Raise("ValueError", "Invalid key")
         ELSE Return(<<FromPublicBytes(alg, decoded)>>)
    ELSE LET r == MultikeyToKey(public_key_multibase) IN
         IF r.status = "raise" THEN r
         ELSE IF r.value[1].algorithm # alg
         THEN Raise("ValueError", "Type and algorithm mismatch")
         ELSE r

\* the base58 branch of AskarKey._expected_alg_and_material_to_key
Base58MaterialToKey(alg, public_key_base58) ==
    IF ~MultibaseValid(MultibaseZ \o public_key_base58)
    THEN Raise("MultibaseError", "invalid multibase")
    ELSE LET decoded == MultibaseDecode(MultibaseZ \o public_key_base58) IN
    IF ~FromPublicBytesOk(alg, decoded)
    THEN Raise("AskarError", "from_public_bytes")
    ELSE Return(<<FromPublicBytes(alg, decoded)>>)

\* AskarKey._expected_alg_and_material_to_key(alg, public_key_multibase, public_key_base58)
ExpectedAlgAndMaterialToKey(alg, public_key_multibase, public_key_base58) ==
    IF public_key_multibase # <<>> /\ public_key_base58 # <<>>
    THEN Raise("ValueError",
               "Only one of public_key_multibase or public_key_base58 must be given")
    ELSE IF public_key_multibase = <<>> /\ public_key_base58 = <<>>
    THEN Raise("ValueError",
               "One of public_key_multibase or public_key_base58 must be given)")
    ELSE IF public_key_multibase # <<>>
    THEN MultibaseMaterialToKey(alg, public_key_multibase)
    ELSE Base58MaterialToKey(alg, public_key_base58)

\* the kid computed by from_verification_method: f"{controller}#{ident}" or ident
VmKid(ident, controller) ==
    IF StartsWith(ident, HASH) THEN controller \o <<HASH>> \o ident ELSE ident

\* the record field from_verification_method reads multibase material from:
\* vm.get("publicKeyMultiBase")
VmMultibaseField(v) == v.publicKeyMultiBase

\* AskarKey.from_verification_method(vm); an absent field is the empty string
FromVerificationMethod(v) ==
    IF v.type = "" THEN Raise("ValueError", "Verification method missing type")
    ELSE IF v.id = <<>> THEN Raise("ValueError", "Verification method missing id")
    ELSE IF v.controller = <<>>
    THEN Raise("ValueError", "Verification method missing controller")
    ELSE LET kid == VmKid(v.id, v.controller) IN
    IF v.type = "Multikey"
    THEN LET multikey == VmMultibaseField(v) IN
         IF multikey = <<>>
         THEN Raise("ValueError", "Multikey verification method missing key")
         ELSE LET r == MultikeyToKey(multikey) IN
              IF r.status = "raise" THEN r ELSE AskarKeyInit(r.value[1], kid)
    ELSE IF v.type \notin DOMAIN type_to_alg
    THEN Raise("ValueError", "Unsupported verification method type: {vm_type}")
    ELSE LET r == ExpectedAlgAndMaterialToKey(type_to_alg[v.type],
                                              VmMultibaseField(v), v.publicKeyBase58) IN
         IF r.status = "raise" THEN r ELSE AskarKeyInit(r.value[1], kid)

(***************************************************************************)
(* aries_askar primitives, symbolically.                                   *)
(***************************************************************************)
\* Key.generate(alg) / Key.generate(alg, ephemeral=True); seed names the fresh key
Generate(alg, seed) ==
    [algorithm |-> alg, public |-> PubBytesFor(alg, seed), secret |-> TRUE]

\* Key.generate(enc_alg) for a symmetric content key
GenerateCek(alg) == [algorithm |-> alg, public |-> <<>>, secret |-> TRUE]

\* key.get_jwk_public()
JwkPublic(key) == [crv |-> key.algorithm, x |-> key.public]

\* Key.from_jwk(jwk) accepts the JWK
FromJwkOk(jwk) == FromPublicBytesOk(jwk.crv, jwk.x)

\* Key.from_jwk(jwk)
FromJwk(jwk) == FromPublicBytes(jwk.crv, jwk.x)

\* size in bytes of a content key of the given content-encryption algorithm
CekLen(enc) ==
    CASE enc = "A128GCM" -> 16
      [] enc \in {"A256GCM", "XC20P", "A128CBC-HS256"} -> 32
      [] enc = "A256CBC-HS512" -> 64
      [] OTHER -> 0

\* ecdh.EcdhEs(alg_id, apu, apv).sender_wrap_key(wrap_alg, epk, recip, cek).ciphertext
EsWrap(alg_id, apu, apv, wrap_alg, epk, recip, cek) ==
    [scheme |-> "ECDH-ES", alg_id |-> alg_id, apu |-> apu, apv |-> apv,
     wrap_alg |-> wrap_alg, epk |-> epk.public, sender |-> <<>>,
     recip |-> recip.public, cc_tag |-> <<>>, cek |-> cek, flip |-> FALSE]

\* ecdh.Ecdh1PU(alg_id, apu, apv).sender_wrap_key(wrap_alg, epk, sender, recip, cek,
\*                                                cc_tag).ciphertext
PuWrap(alg_id, apu, apv, wrap_alg, epk, sender, recip, cek, cc_tag) ==
    [scheme |-> "ECDH-1PU", alg_id |-> alg_id, apu |-> apu, apv |-> apv,
     wrap_alg |-> wrap_alg, epk |-> epk.public, sender |-> sender.public,
     recip |-> recip.public, cc_tag |-> <<cc_tag>>, cek |-> cek, flip |-> FALSE]

\* key agreement needs the ephemeral secret and keys on one curve
WrapOk(epk, keys) == epk.secret /\ \A k \in keys : k.algorithm = epk.algorithm

\* receiver_unwrap_key recovers the content key exactly when it is handed what the
\* key was wrapped with and the recipient's secret
EsUnwrapOk(alg_id, apu, apv, wrap_alg, enc_alg, epk, recip, ek) ==
    /\ recip.secret /\ ~ek.flip /\ ek.scheme = "ECDH-ES"
    /\ ek.alg_id = alg_id /\ ek.apu = apu /\ ek.apv = apv /\ ek.wrap_alg = wrap_alg
    /\ ek.epk = epk.public /\ ek.recip = recip.public
    /\ CekLen(enc_alg) = CekLen(ek.cek.algorithm)

PuUnwrapOk(alg_id, apu, apv, wrap_alg, enc_alg, epk, sender, recip, ek, cc_tag) ==
    /\ recip.secret /\ ~ek.flip /\ ek.scheme = "ECDH-1PU"
    /\ ek.alg_id = alg_id /\ ek.apu = apu /\ ek.apv = apv /\ ek.wrap_alg = wrap_alg
    /\ ek.epk = epk.public /\ ek.sender = sender.public /\ ek.recip = recip.public
    /\ ek.cc_tag = <<cc_tag>>
    /\ CekLen(enc_alg) = CekLen(ek.cek.algorithm)

\* the key receiver_unwrap_key returns: the wrapped key, typed enc_alg
Unwrapped(ek, enc_alg) == [ek.cek EXCEPT !.algorithm = enc_alg]

\* cek.aead_encrypt(message, aad=aad): ciphertext, nonce, tag
AeadEncrypt(cek, message, aad) ==
    [ciphertext |-> [key |-> cek, pt |-> message, flip |-> FALSE],
     nonce |-> [fresh |-> TRUE, flip |-> FALSE],
     tag |-> [key |-> cek, pt |-> message, aad |-> aad, flip |-> FALSE]]

\* cek.aead_decrypt(ciphertext, nonce=, tag=, aad=) authenticates
AeadDecryptOk(cek, ciphertext, nonce, tag, aad) ==
    /\ ~ciphertext.flip /\ ~nonce.flip /\ ~tag.flip
    /\ ciphertext.key = cek /\ tag.key = cek
    /\ tag.pt = ciphertext.pt /\ tag.aad = aad

(***************************************************************************)
(* JweBuilder / JweEnvelope (didcomm_messaging.jwe).                       *)
(* A header is an ordered list of <<name, value>> pairs.                   *)
(***************************************************************************)
Has(header, name) == \E i \in 1..Len(header) : header[i][1] = name

\* dict.get(name) of a present name
Get(header, name) == header[CHOOSE i \in 1..Len(header) : header[i][1] = name][2]

RECURSIVE Flatten(_)
\* the serialized header: its names and values in order
Flatten(header) ==
    IF header = <<>> THEN <<>>
    ELSE <<header[1][1], header[1][2]>> \o Flatten(Tail(header))

\* builder.protected_bytes: the text of the protected header, the AAD
ProtectedBytes(header) == Flatten(header)

\* the protected header parsed back from its text
ParseProtected(bytes) ==
    [i \in 1..(Len(bytes) \div 2) |-> <<bytes[2 * i - 1], bytes[2 * i]>>]

\* builder.build().to_json().encode("utf-8")
ToJson(protected, recipients, payload) ==
    [protected |-> ProtectedBytes(protected), recipients |-> recipients,
     iv |-> payload.nonce, ciphertext |-> payload.ciphertext, tag |-> payload.tag]

\* JweEnvelope.from_json(wrapper)
FromJson(w) ==
    [protected |-> ParseProtected(w.protected), protected_b64 |-> w.protected,
     recipients |-> w.recipients, iv |-> w.iv, ciphertext |-> w.ciphertext,
     tag |-> w.tag]

\* wrapper.combined_aad
CombinedAad(env) == env.protected_b64

\* wrapper.get_recipient(kid): the entries whose header kid is kid, in order
GetRecipient(env, kid) ==
    SelectSeq(env.recipients, LAMBDA r : Has(r.header, "kid") /\ Get(r.header, "kid") = kid)

(***************************************************************************)
(* AskarCryptoService: encryption.                                         *)
(* A run yields its outcome, the envelope bytes it returned (none when it   *)
(* raised) and the calls it made to the primitives and the builder.        *)
(* fault names the primitive call the library fails in this run, if any.   *)
(***************************************************************************)
NoFault == [step |-> "none", at |-> 0]

Run(out, env, log) == [out |-> out, env |-> env, log |-> log]

Kids(to_keys) == [i \in 1..Len(to_keys) |-> to_keys[i].kid]

\* one ephemeral key used for every recipient on a curve
EsEphemeralShared(recip_key, i) == Generate(recip_key.key.algorithm, 100)

\* the ephemeral key of the i-th turn of the loop of ecdh_es_encrypt:
\* Key.generate(recip_key.key.algorithm, ephemeral=True), fresh in every turn
EsEphemeral(recip_key, i) == Generate(recip_key.key.algorithm, 100 + i)

RECURSIVE EsRecipients(_, _, _, _, _, _)
\* the loop "for kid, recip_key in to_keys.items()" of ecdh_es_encrypt
EsRecipients(to_keys, i, cek, fault, recips, log) ==
    IF i > Len(to_keys) THEN Run(Return(<<>>), recips, log)
    ELSE LET kid == to_keys[i].kid
             recip_key == to_keys[i].key
             gen == [call |-> "generate", alg |-> recip_key.key.algorithm,
                     ephemeral |-> TRUE]
         IN
         IF fault = [step |-> "epk", at |-> i]
         THEN Run(Raise("CryptoServiceError", "Error creating ephemeral key"),
                  recips, Append(log, gen))
         ELSE LET epk == EsEphemeral(recip_key, i)
                  wrap == [call |-> "es_wrap", alg_id |-> "ECDH-ES+A256KW",
                           apu |-> <<>>, apv |-> <<>>, wrap_alg |-> "A256KW",
                           epk |-> epk, recip |-> recip_key.key, cek |-> cek,
                           cc_tag |-> <<>>]
              IN
              IF fault = [step |-> "wrap", at |-> i] \/ ~WrapOk(epk, {recip_key.key})
              THEN Run(Raise("AskarError", "sender_wrap_key"),
                       recips, log \o <<gen, wrap>>)
              ELSE EsRecipients(to_keys, i + 1, cek, fault,
                       Append(recips,
                           [encrypted_key |->
                                EsWrap("ECDH-ES+A256KW", <<>>, <<>>, "A256KW",
                                       epk, recip_key.key, cek),
                            header |-> << <<"kid", kid>>, <<"epk", JwkPublic(epk)>> >>]),
                       log \o <<gen, wrap, [call |-> "add_recipient", kid |-> kid]>>)

\* the exception ecdh_es_encrypt raises for an empty recipient mapping
EsNoRecipients == Raise("ValueError", "No message recipients")

\* AskarCryptoService.ecdh_es_encrypt(to_keys, message)
EcdhEsEncrypt(to_keys, message, fault) ==
    IF to_keys = <<>> THEN Run(EsNoRecipients, <<>>, <<>>)
    ELSE LET gen == [call |-> "generate", alg |-> "XC20P", ephemeral |-> FALSE] IN
    IF fault.step = "cek"
    THEN Run(Raise("CryptoServiceError", "Error creating content encryption key"),
             <<>>, <<gen>>)
    ELSE LET cek == GenerateCek("XC20P")
             loop == EsRecipients(to_keys, 1, cek, fault, <<>>, <<gen>>)
         IN
    IF loop.out.status = "raise" THEN Run(loop.out, <<>>, loop.log)
    ELSE LET protected == << <<"alg", "ECDH-ES+A256KW">>, <<"enc", "XC20P">> >>
             aad == ProtectedBytes(protected)
             enc == [call |-> "aead_encrypt", cek |-> cek, pt |-> message, aad |-> aad]
             log == loop.log \o <<[call |-> "set_protected", header |-> protected], enc>>
         IN
    IF fault.step = "aead"
    THEN Run(Raise("CryptoServiceError", "Error encrypting message payload"), <<>>, log)
    ELSE LET payload == AeadEncrypt(cek, message, aad) IN
         Run(Return(<<>>), <<ToJson(protected, loop.env, payload)>>,
             Append(log, [call |-> "set_payload", tag |-> payload.tag]))

\* a check of the first recipient key alone
ConsistentAlgsFirstOnly(to_keys, agree_alg) ==
    to_keys[1].key.key.algorithm = agree_alg

\* the first loop of ecdh_1pu_encrypt: every recipient key is on the sender's curve
ConsistentAlgs(to_keys, agree_alg) ==
    \A i \in 1..Len(to_keys) : to_keys[i].key.key.algorithm = agree_alg

\* apv built from the kids in the order the mapping lists them
Ecdh1puApvUnsorted(to_keys) == b64url(Join(<<DOT>>, Kids(to_keys)))

\* apv of ecdh_1pu_encrypt: the kids are collected, sorted, joined and encoded
Ecdh1puApv(to_keys) == b64url(Join(<<DOT>>, SortStrings(Kids(to_keys))))

RECURSIVE PuRecipients(_, _, _, _, _, _, _, _, _, _)
\* the loop "for kid, recip_key in to_keys.items()" that wraps the content key
PuRecipients(to_keys, i, cek, epk, sender_key, apu, apv, tag, fault, acc) ==
    IF i > Len(to_keys) THEN acc
    ELSE LET kid == to_keys[i].kid
             recip_key == to_keys[i].key
             wrap == [call |-> "1pu_wrap", alg_id |-> "ECDH-1PU+A256KW",
                      apu |-> apu, apv |-> apv, wrap_alg |-> "A256KW",
                      epk |-> epk, sender |-> sender_key.key,
                      recip |-> recip_key.key, cek |-> cek, cc_tag |-> <<tag>>]
         IN
         IF \/ fault = [step |-> "wrap", at |-> i]
            \/ ~WrapOk(epk, {sender_key.key, recip_key.key})
            \/ ~sender_key.key.secret
         THEN Run(Raise("AskarError", "sender_wrap_key"), acc.env, Append(acc.log, wrap))
         ELSE PuRecipients(to_keys, i + 1, cek, epk, sender_key, apu, apv, tag, fault,
                  Run(acc.out,
                      Append(acc.env,
                          [encrypted_key |->
                               PuWrap("ECDH-1PU+A256KW", apu, apv, "A256KW", epk,
                                      sender_key.key, recip_key.key, cek, tag),
                           header |-> << <<"kid", kid>> >>]),
                      acc.log \o <<wrap, [call |-> "add_recipient", kid |-> kid]>>))

\* the sender kid as it is
Ecdh1puApuPlain(sender_kid) == sender_kid

\* apu of ecdh_1pu_encrypt: b64url(sender_kid)
Ecdh1puApu(sender_kid) == b64url(sender_kid)

\* a cc_tag that is not the tag of the payload
PuCcTagOther(payload) == [payload.tag EXCEPT !.flip = TRUE]

\* the cc_tag handed to sender_wrap_key: cc_tag=payload.tag
PuCcTag(payload) == payload.tag

\* the exception ecdh_1pu_encrypt raises for an empty recipient mapping
PuNoRecipients == Raise("CryptoServiceError", "No message recipients")

\* AskarCryptoService.ecdh_1pu_encrypt(to_keys, sender_kid, sender_key, message)
Ecdh1puEncrypt(to_keys, sender_kid, sender_key, message, fault) ==
    LET agree_alg == sender_key.key.algorithm IN
    IF to_keys = <<>> THEN Run(PuNoRecipients, <<>>, <<>>)
    ELSE LET gen == [call |-> "generate", alg |-> "A256CBC-HS512", ephemeral |-> FALSE] IN
    IF fault.step = "cek"
    THEN Run(Raise("CryptoServiceError", "Error creating content encryption key"),
             <<>>, <<gen>>)
    ELSE LET cek == GenerateCek("A256CBC-HS512")
             egen == [call |-> "generate", alg |-> agree_alg, ephemeral |-> TRUE]
         IN
    IF fault.step = "epk"
    THEN Run(Raise("CryptoServiceError", "Error creating ephemeral key"),
             <<>>, <<gen, egen>>)
    ELSE LET epk == Generate(agree_alg, 100) IN
    IF ~ConsistentAlgs(to_keys, agree_alg)
    THEN Run(Raise("CryptoServiceError", "Recipient key types must be consistent"),
             <<>>, <<gen, egen>>)
    ELSE LET apu == Ecdh1puApu(sender_kid)
             apv == Ecdh1puApv(to_keys)
             protected == << <<"alg", "ECDH-1PU+A256KW">>, <<"enc", "A256CBC-HS512">>,
                             <<"apu", apu>>, <<"apv", apv>>,
                             <<"epk", JwkPublic(epk)>>, <<"skid", sender_kid>> >>
             aad == ProtectedBytes(protected)
             enc == [call |-> "aead_encrypt", cek |-> cek, pt |-> message, aad |-> aad]
             log == <<gen, egen, [call |-> "set_protected", header |-> protected], enc>>
         IN
    IF fault.step = "aead"
    THEN Run(Raise("CryptoServiceError", "Error encrypting message payload"), <<>>, log)
    ELSE LET payload == AeadEncrypt(cek, message, aad)
             loop == PuRecipients(to_keys, 1, cek, epk, sender_key, apu, apv,
                         PuCcTag(payload), fault,
                         Run(Return(<<>>), <<>>,
                             Append(log, [call |-> "set_payload", tag |-> payload.tag])))
         IN
    IF loop.out.status = "raise" THEN Run(loop.out, <<>>, loop.log)
    ELSE Run(Return(<<>>), <<ToJson(protected, loop.env, payload)>>, loop.log)

(***************************************************************************)
(* AskarCryptoService: decryption.                                         *)
(***************************************************************************)
\* alg_id[n:] for the accepted algorithm identifiers
Slice(alg_id, n) ==
    CASE alg_id = "ECDH-ES+A128KW" /\ n = 8 -> "A128KW"
      [] alg_id = "ECDH-ES+A256KW" /\ n = 8 -> "A256KW"
      [] alg_id = "ECDH-1PU+A128KW" /\ n = 9 -> "A128KW"
      [] alg_id = "ECDH-1PU+A256KW" /\ n = 9 -> "A256KW"
      [] OTHER -> "?"

\* header.get(name), None read as the empty string
GetOrNone(header, name) == IF Has(header, name) THEN Get(header, name) ELSE <<>>

\* a missing recipient reported as a failed key unwrap
RecipientNotFoundAsUnwrap ==
    Raise("CryptoServiceError", "Error decrypting content encryption key")

\* the exception both decrypt methods raise when get_recipient finds no entry
RecipientNotFound == Raise("CryptoServiceError", "Recipient header not found")

\* the header ecdh_es_decrypt reads enc from: recip.header
EsEncHeader(env, recip) == recip.header

\* the header ecdh_1pu_decrypt reads epk from: recip.header
PuEpkHeader(env, recip) == recip.header

\* AskarCryptoService.ecdh_es_decrypt(wrapper, recip_key)
EcdhEsDecrypt(wire, recip_key, fault) ==
    LET wrapper == FromJson(wire) IN
    IF ~(Has(wrapper.protected, "alg")
         /\ Get(wrapper.protected, "alg") \in {"ECDH-ES+A128KW", "ECDH-ES+A256KW"})
    THEN Run(Raise("CryptoServiceError", "Missing or unsupported ECDH-ES algorithm"),
             <<>>, <<>>)
    ELSE LET alg_id == Get(wrapper.protected, "alg")
             wrap_alg == Slice(alg_id, 8)
             found == GetRecipient(wrapper, recip_key.kid)
         IN
    IF found = <<>>
    THEN Run(RecipientNotFound, <<>>, <<>>)
    ELSE LET recip == found[1] IN
    IF ~(Has(EsEncHeader(wrapper, recip), "enc")
         /\ Get(EsEncHeader(wrapper, recip), "enc") \in
              {"A128GCM", "A256GCM", "A128CBC-HS256", "A256CBC-HS512", "XC20P"})
    THEN Run(Raise("CryptoServiceError", "Unsupported ECDH-ES content encryption"),
             <<>>, <<>>)
    ELSE LET enc_alg == Get(EsEncHeader(wrapper, recip), "enc") IN
    IF ~Has(recip.header, "epk")
    THEN Run(Raise("CryptoServiceError", "Missing ephemeral key"), <<>>, <<>>)
    ELSE LET epk_header == Get(recip.header, "epk")
             load == [call |-> "from_jwk", jwk |-> epk_header]
         IN
    IF fault.step = "jwk" \/ ~FromJwkOk(epk_header)
    THEN Run(Raise("CryptoServiceError", "Error loading ephemeral key"), <<>>, <<load>>)
    ELSE LET epk == FromJwk(epk_header)
             apu == GetOrNone(recip.header, "apu")
             apv == GetOrNone(recip.header, "apv")
             unwrap == [call |-> "es_unwrap", alg_id |-> alg_id, apu |-> apu,
                        apv |-> apv, wrap_alg |-> wrap_alg, enc_alg |-> enc_alg,
                        epk |-> epk, recip |-> recip_key.key, cc_tag |-> <<>>]
         IN
    IF \/ fault.step = "unwrap"
       \/ ~EsUnwrapOk(alg_id, apu, apv, wrap_alg, enc_alg, epk, recip_key.key,
                      recip.encrypted_key)
    THEN Run(Raise("CryptoServiceError", "Error decrypting content encryption key"),
             <<>>, <<load, unwrap>>)
    ELSE LET cek == Unwrapped(recip.encrypted_key, enc_alg)
             dec == [call |-> "aead_decrypt", cek |-> cek, aad |-> CombinedAad(wrapper)]
         IN
    IF \/ fault.step = "aead"
       \/ ~AeadDecryptOk(cek, wrapper.ciphertext, wrapper.iv, wrapper.tag,
                         CombinedAad(wrapper))
    THEN Run(Raise("CryptoServiceError", "Error decrypting message payload"),
             <<>>, <<load, unwrap, dec>>)
    ELSE Run(Return(wrapper.ciphertext.pt), <<>>, <<load, unwrap, dec>>)

\* a check that lets XC20P through as well
PuContentAlgsAndXC20P == {"A128CBC-HS256", "A256CBC-HS512", "XC20P"}

\* the content encryption algorithms ecdh_1pu_decrypt accepts
PuContentAlgs == {"A128CBC-HS256", "A256CBC-HS512"}

\* AskarCryptoService.ecdh_1pu_decrypt(wrapper, recip_key, sender_key)
Ecdh1puDecrypt(wire, recip_key, sender_key, fault) ==
    LET wrapper == FromJson(wire) IN
    IF ~(Has(wrapper.protected, "alg")
         /\ Get(wrapper.protected, "alg") \in {"ECDH-1PU+A128KW", "ECDH-1PU+A256KW"})
    THEN Run(Raise("CryptoServiceError", "Unsupported ECDH-1PU algorithm"), <<>>, <<>>)
    ELSE LET alg_id == Get(wrapper.protected, "alg")
             wrap_alg == Slice(alg_id, 9)
         IN
    IF ~(Has(wrapper.protected, "enc")
         /\ Get(wrapper.protected, "enc") \in PuContentAlgs)
    THEN Run(Raise("CryptoServiceError", "Unsupported ECDH-1PU content encryption"),
             <<>>, <<>>)
    ELSE LET enc_alg == Get(wrapper.protected, "enc")
             found == GetRecipient(wrapper, recip_key.kid)
         IN
    IF found = <<>>
    THEN Run(RecipientNotFound, <<>>, <<>>)
    ELSE LET recip == found[1] IN
    IF ~Has(PuEpkHeader(wrapper, recip), "epk")
    THEN Run(Raise("CryptoServiceError", "Missing ephemeral key"), <<>>, <<>>)
    ELSE LET epk_header == Get(PuEpkHeader(wrapper, recip), "epk")
             load == [call |-> "from_jwk", jwk |-> epk_header]
         IN
    IF fault.step = "jwk" \/ ~FromJwkOk(epk_header)
    THEN Run(Raise("CryptoServiceError", "Error loading ephemeral key"), <<>>, <<load>>)
    ELSE LET epk == FromJwk(epk_header)
             apu == GetOrNone(wrapper.protected, "apu")
             apv == GetOrNone(wrapper.protected, "apv")
             unwrap == [call |-> "1pu_unwrap", alg_id |-> alg_id, apu |-> apu,
                        apv |-> apv, wrap_alg |-> wrap_alg, enc_alg |-> enc_alg,
                        epk |-> epk, sender |-> sender_key.key,
                        recip |-> recip_key.key, cc_tag |-> <<wrapper.tag>>]
         IN
    IF \/ fault.step = "unwrap"
       \/ ~PuUnwrapOk(alg_id, apu, apv, wrap_alg, enc_alg, epk, sender_key.key,
                      recip_key.key, recip.encrypted_key, wrapper.tag)
    THEN Run(Raise("CryptoServiceError", "Error decrypting content encryption key"),
             <<>>, <<load, unwrap>>)
    ELSE LET cek == Unwrapped(recip.encrypted_key, enc_alg)
             dec == [call |-> "aead_decrypt", cek |-> cek, aad |-> CombinedAad(wrapper)]
         IN
    IF \/ fault.step = "aead"
       \/ ~AeadDecryptOk(cek, wrapper.ciphertext, wrapper.iv, wrapper.tag,
                         CombinedAad(wrapper))
    THEN Run(Raise("CryptoServiceError", "Error decrypting message payload"),
             <<>>, <<load, unwrap, dec>>)
    ELSE Run(Return(wrapper.ciphertext.pt), <<>>, <<load, unwrap, dec>>)

(***************************************************************************)
(* Inputs.                                                                 *)
(***************************************************************************)
\* "a#1", "b#1", "c#2", "d#1" and "b#", a prefix of "b#1"
ALICE_KID == <<97, HASH, 49>>
BOB_KID == <<98, HASH, 49>>
CAROL_KID == <<99, HASH, 50>>
DAVE_KID == <<100, HASH, 49>>
ERIN_KID == <<98, HASH>>

\* a key pair with its kid, as AskarKey(Key.generate(alg), kid)
KeyOf(alg, seed, kid) == [key |-> Generate(alg, seed), kid |-> kid]

Alice == KeyOf("x25519", 1, ALICE_KID)
Bob == KeyOf("x25519", 2, BOB_KID)
Carol == KeyOf("x25519", 3, CAROL_KID)
Dave == KeyOf("k256", 4, DAVE_KID)
Erin == KeyOf("x25519", 5, ERIN_KID)

RecipientPool == {Bob, Carol, Dave, Erin}
SenderPool == {Alice, Dave}
LocalPool == {Alice, Bob, Carol, Dave, Erin}

\* the public part of a key, as handed to a peer
PublicOf(k) == [k EXCEPT !.key.secret = FALSE]

\* recipient mappings kid -> key in iteration order: distinct kids
RecipientMappings ==
    UNION {{[i \in 1..n |-> [kid |-> f[i].kid, key |-> PublicOf(f[i])]] :
              f \in {g \in [1..n -> RecipientPool] :
                       \A i, j \in 1..n : i # j => g[i] # g[j]}} :
           n \in 0..MaxRecipients}

Messages == {<<>>, <<69, 120>>}

EncryptFaults(to_keys) ==
    {NoFault, [step |-> "cek", at |-> 0], [step |-> "aead", at |-> 0]}
      \cup {[step |-> st, at |-> i] : st \in {"epk", "wrap"}, i \in 1..Len(to_keys)}

(***************************************************************************)
(* State.                                                                  *)
(***************************************************************************)
VARIABLES
    call,       \* the last call made: its name and arguments
    outcome,    \* what that call returned or raised
    log,        \* the primitive and builder calls that call made, in order
    wire,       \* the envelope bytes in transit: <<>> or <<envelope>>
    sent,       \* the encryption call that produced the envelope in transit
    tampered,   \* the envelope fields altered in transit
    forged,     \* the members a foreign producer added to the envelope
    vm,         \* the verification method last resolved
    resolved    \* what from_verification_method returned or raised for it

vars == <<call, outcome, log, wire, sent, tampered, forged, vm, resolved>>

NoCall == [op |-> "init"]
NoOutcome == [status |-> "none", exc |-> "", msg |-> "", value |-> <<>>]
NoVm == [type |-> "", id |-> <<>>, controller |-> <<>>, publicKeyMultibase |-> <<>>,
         publicKeyMultiBase |-> <<>>, publicKeyBase58 |-> <<>>]

Init ==
    /\ call = NoCall /\ outcome = NoOutcome /\ log = <<>>
    /\ wire = <<>> /\ sent = NoCall /\ tampered = {} /\ forged = {}
    /\ vm = NoVm /\ resolved = NoOutcome

(***************************************************************************)
(* Calls of the crypto service. Every call is one transaction.             *)
(***************************************************************************)
EsEncryptCall ==
    /\ call = NoCall
    /\ \E to_keys \in RecipientMappings, message \in Messages :
       \E fault \in EncryptFaults(to_keys) :
         LET r == EcdhEsEncrypt(to_keys, message, fault)
             c == [op |-> "ecdh_es_encrypt", to_keys |-> to_keys,
                   message |-> message, fault |-> fault]
         IN /\ call' = c /\ sent' = c
            /\ outcome' = r.out /\ wire' = r.env /\ log' = r.log
    /\ UNCHANGED <<tampered, forged, vm, resolved>>

PuEncryptCall ==
    /\ call = NoCall
    /\ \E to_keys \in RecipientMappings, message \in Messages, sender_key \in SenderPool :
       \E fault \in EncryptFaults(to_keys) :
         LET r == Ecdh1puEncrypt(to_keys, sender_key.kid, sender_key, message, fault)
             c == [op |-> "ecdh_1pu_encrypt", to_keys |-> to_keys,
                   sender_kid |-> sender_key.kid, sender_key |-> sender_key,
                   message |-> message, fault |-> fault]
         IN /\ call' = c /\ sent' = c
            /\ outcome' = r.out /\ wire' = r.env /\ log' = r.log
    /\ UNCHANGED <<tampered, forged, vm, resolved>>

InTransit == wire # <<>> /\ call.op \in {"ecdh_es_encrypt", "ecdh_1pu_encrypt", "transit"}

\* the protected header text with the value of one member replaced
WithMember(bytes, name, value) ==
    [i \in 1..Len(bytes) |->
        IF i % 2 = 0 /\ bytes[i - 1] = name THEN value ELSE bytes[i]]

HasMember(bytes, name) == \E i \in 1..Len(bytes) : i % 2 = 1 /\ bytes[i] = name

MemberOf(bytes, name) == bytes[1 + CHOOSE i \in 1..Len(bytes) : i % 2 = 1 /\ bytes[i] = name]

OtherAlg(alg_id) ==
    CASE alg_id = "ECDH-ES+A256KW" -> "ECDH-ES+A128KW"
      [] alg_id = "ECDH-1PU+A256KW" -> "ECDH-1PU+A128KW"
      [] OTHER -> "ECDH-ES+A256KW"

OtherEnc(enc) ==
    CASE enc = "XC20P" -> "A256GCM"
      [] enc = "A256CBC-HS512" -> "A128CBC-HS256"
      [] OTHER -> "XC20P"

\* the protected header text without one member
WithoutMember(bytes, name) ==
    Flatten(SelectSeq(ParseProtected(bytes), LAMBDA m : m[1] # name))

TamperKinds ==
    {"ciphertext", "tag", "iv", "protected", "protected.alg", "protected.alg?",
     "protected.enc", "protected.enc:XC20P", "protected.enc:A256GCM",
     "protected.enc:none", "protected.alg:none", "protected.epk:none"}

\* the envelope with one field altered
Tampered(w, kind) ==
    CASE kind = "ciphertext" -> [w EXCEPT !.ciphertext.flip = TRUE]
      [] kind = "tag" -> [w EXCEPT !.tag.flip = TRUE]
      [] kind = "iv" -> [w EXCEPT !.iv.flip = TRUE]
      [] kind = "protected" -> [w EXCEPT !.protected = @ \o <<"x", "x">>]
      [] kind = "protected.alg" ->
           [w EXCEPT !.protected = WithMember(@, "alg", OtherAlg(MemberOf(@, "alg")))]
      [] kind = "protected.alg?" ->
           [w EXCEPT !.protected = WithMember(@, "alg", "ECDH-?")]
      [] kind = "protected.enc" ->
           [w EXCEPT !.protected = WithMember(@, "enc", OtherEnc(MemberOf(@, "enc")))]
      [] kind = "protected.enc:XC20P" ->
           [w EXCEPT !.protected = WithMember(@, "enc", "XC20P")]
      [] kind = "protected.enc:A256GCM" ->
           [w EXCEPT !.protected = WithMember(@, "enc", "A256GCM")]
      [] kind = "protected.enc:none" ->
           [w EXCEPT !.protected = WithoutMember(@, "enc")]
      [] kind = "protected.alg:none" ->
           [w EXCEPT !.protected = WithoutMember(@, "alg")]
      [] kind = "protected.epk:none" ->
           [w EXCEPT !.protected = WithoutMember(@, "epk")]

\* someone on the path alters one field of the envelope
Tamper ==
    /\ InTransit
    /\ Cardinality(tampered) < MaxTamper
    /\ \E kind \in TamperKinds \ tampered :
         /\ kind \in {"protected.alg", "protected.alg?", "protected.alg:none"}
              => HasMember(wire[1].protected, "alg")
         /\ kind \in {"protected.enc", "protected.enc:XC20P", "protected.enc:A256GCM",
                      "protected.enc:none"}
              => HasMember(wire[1].protected, "enc")
         /\ kind = "protected.epk:none" => HasMember(wire[1].protected, "epk")
         /\ Tampered(wire[1], kind) # wire[1]
         /\ wire' = <<Tampered(wire[1], kind)>>
         /\ tampered' = tampered \cup {kind}
    /\ call' = [op |-> "transit"]
    /\ UNCHANGED <<outcome, log, sent, forged, vm, resolved>>

ForgeKinds == {"recipient.enc", "recipient.epk", "recipient.epk:other"}

\* the member a forge adds to the recipient headers
ForgeName(kind) == IF kind = "recipient.enc" THEN "enc" ELSE "epk"

\* its value: the protected header's, or an ephemeral key of the producer's own
ForgeValue(w, kind) ==
    IF kind = "recipient.epk:other" THEN JwkPublic(Generate("x25519", 99))
    ELSE MemberOf(w.protected, ForgeName(kind))

\* the envelope as a foreign producer would shape it: a member added to every
\* recipient's header
Forged(w, kind) ==
    [w EXCEPT !.recipients =
        [i \in 1..Len(@) |->
            [@[i] EXCEPT !.header = @ \o << <<ForgeName(kind), ForgeValue(w, kind)>> >>]]]

Forge ==
    /\ InTransit
    /\ \E kind \in ForgeKinds \ forged :
         /\ kind = "recipient.epk:other" \/ HasMember(wire[1].protected, ForgeName(kind))
         /\ \A i \in 1..Len(wire[1].recipients) :
              ~Has(wire[1].recipients[i].header, ForgeName(kind))
         /\ wire' = <<Forged(wire[1], kind)>>
         /\ forged' = forged \cup {kind}
    /\ call' = [op |-> "transit"]
    /\ UNCHANGED <<outcome, log, sent, tampered, vm, resolved>>

EsDecryptCall ==
    /\ InTransit
    /\ \E recip_key \in LocalPool :
         LET r == EcdhEsDecrypt(wire[1], recip_key, NoFault) IN
         /\ call' = [op |-> "ecdh_es_decrypt", recip_key |-> recip_key]
         /\ outcome' = r.out /\ log' = r.log
    /\ UNCHANGED <<wire, sent, tampered, forged, vm, resolved>>

PuDecryptCall ==
    /\ InTransit
    /\ \E recip_key \in LocalPool, sender_key \in SenderPool :
         LET r == Ecdh1puDecrypt(wire[1], recip_key, PublicOf(sender_key), NoFault) IN
         /\ call' = [op |-> "ecdh_1pu_decrypt", recip_key |-> recip_key,
                     sender_key |-> PublicOf(sender_key)]
         /\ outcome' = r.out /\ log' = r.log
    /\ UNCHANGED <<wire, sent, tampered, forged, vm, resolved>>

(***************************************************************************)
(* Verification methods handed to AskarKey.from_verification_method.       *)
(***************************************************************************)
\* the multikey text of raw public bytes under a codec
MultikeyOf(codec_name, bytes) ==
    MultibaseEncode(MulticodecWrap(CodecByName(codec_name), bytes))

MkX25519 == MultikeyOf("x25519-pub", PubBytesFor("x25519", 11))
MkEd25519 == MultikeyOf("ed25519-pub", PubBytesFor("ed25519", 12))
MkK256 == MultikeyOf("secp256k1-pub", PubBytesFor("k256", 13))
MkP256 == MultikeyOf("p256-pub", PubBytesFor("k256", 14))
\* a multikey whose key bytes are one byte short
MkShort == MultikeyOf("x25519-pub", Tail(RawKey(15)))
\* raw key bytes in multibase, without a codec
RawMultibase == MultibaseEncode(RawKey(16))

SupportedMultikeys == {MkX25519, MkEd25519, MkK256}

MultibaseMaterials == SupportedMultikeys \cup {MkP256, MkShort, RawMultibase}

Base58Materials == {B58Encode(RawKey(17)), B58Encode(Tail(RawKey(18)))}

VmTypes == DOMAIN type_to_alg \cup {"Multikey", "JsonWebKey2020", ""}

\* "#k", "d:x#k" and absent
VmIds == {<<>>, <<HASH, 107>>, <<100, 58, 120, HASH, 107>>}

\* "d:x" and absent
VmControllers == {<<>>, <<100, 58, 120>>}

\* the records: multibase material under the DID-core member name
\* publicKeyMultibase or under the spelling publicKeyMultiBase, never both
VmInputs ==
    {[type |-> t, id |-> i, controller |-> c, publicKeyMultibase |-> m.a,
      publicKeyMultiBase |-> m.b, publicKeyBase58 |-> b] :
        t \in VmTypes, i \in VmIds, c \in VmControllers,
        m \in {[a |-> <<>>, b |-> <<>>]}
                \cup {[a |-> x, b |-> <<>>] : x \in MultibaseMaterials}
                \cup {[a |-> <<>>, b |-> x] : x \in MultibaseMaterials},
        b \in {<<>>} \cup Base58Materials}

ResolveCall ==
    /\ call = NoCall
    /\ \E v \in VmInputs :
         /\ vm' = v
         /\ resolved' = FromVerificationMethod(v)
    /\ call' = [op |-> "from_verification_method"]
    /\ UNCHANGED <<outcome, log, wire, sent, tampered, forged>>

NextKeys == ResolveCall

SpecKeys == Init /\ [][NextKeys]_vars

Next ==
    \/ EsEncryptCall
    \/ PuEncryptCall
    \/ Tamper
    \/ Forge
    \/ EsDecryptCall
    \/ PuDecryptCall

Spec == Init /\ [][Next]_vars

(***************************************************************************)
(* Properties.                                                             *)
(***************************************************************************)
\* the local key of the decrypt call is a recipient of the encryption call that
\* produced the envelope, under the kid it has in the mapping
Addressed ==
    \E i \in 1..Len(sent.to_keys) :
        /\ sent.to_keys[i].kid = call.recip_key.kid
        /\ sent.to_keys[i].key = PublicOf(call.recip_key)

\* the envelope reaches decryption exactly as encryption returned it
Untouched == tampered = {} /\ forged = {}

\* no recipient entry of the envelope in transit carries the local key's kid
NotListed ==
    \A i \in 1..Len(wire[1].recipients) :
        ~(Has(wire[1].recipients[i].header, "kid")
          /\ Get(wire[1].recipients[i].header, "kid") = call.recip_key.kid)

CryptoCalls == {"from_jwk", "es_unwrap", "1pu_unwrap", "aead_decrypt"}

NoCryptoAttempted == \A i \in 1..Len(log) : log[i].call \notin CryptoCalls

DecryptionFailedMsgs ==
    {"Error decrypting content encryption key", "Error decrypting message payload"}

C3_RecipientIsolation ==
    /\ (/\ call.op = "ecdh_es_decrypt"
        /\ HasMember(wire[1].protected, "alg")
        /\ MemberOf(wire[1].protected, "alg") \in {"ECDH-ES+A128KW", "ECDH-ES+A256KW"}
        /\ NotListed)
           => /\ outcome.status = "raise"
              /\ outcome.exc = "CryptoServiceError"
              /\ outcome.msg = "Recipient header not found"
              /\ NoCryptoAttempted
    /\ (/\ call.op = "ecdh_1pu_decrypt"
        /\ HasMember(wire[1].protected, "alg")
        /\ MemberOf(wire[1].protected, "alg") \in {"ECDH-1PU+A128KW", "ECDH-1PU+A256KW"}
        /\ HasMember(wire[1].protected, "enc")
        /\ MemberOf(wire[1].protected, "enc") \in {"A128CBC-HS256", "A256CBC-HS512"}
        /\ NotListed)
           => /\ outcome.status = "raise"
              /\ outcome.exc = "CryptoServiceError"
              /\ outcome.msg = "Recipient header not found"
              /\ NoCryptoAttempted

\* an untouched 1PU envelope for two recipients is handed to ecdh_1pu_decrypt
\* with Alice's key, who is not one of them
C3_Witness ==
    /\ call.op = "ecdh_1pu_decrypt" /\ sent.op = "ecdh_1pu_encrypt"
    /\ call.recip_key = Alice
    /\ Len(wire[1].recipients) = 2
    /\ Untouched
    /\ NotListed
    /\ outcome.msg = "Recipient header not found"

\* C4: tamper sensitivity: an envelope produced by encryption and addressed to the
\* local key, with its ciphertext, tag, iv or protected header altered, fails to
\* decrypt, always with the opaque decryption-failure kind.
C4_TamperOpaque ==
    (/\ \/ call.op = "ecdh_es_decrypt" /\ sent.op = "ecdh_es_encrypt"
        \/ /\ call.op = "ecdh_1pu_decrypt" /\ sent.op = "ecdh_1pu_encrypt"
           /\ call.sender_key = PublicOf(sent.sender_key)
     /\ forged = {} /\ tampered # {} /\ Addressed)
        => /\ outcome.status = "raise"
           /\ outcome.exc = "CryptoServiceError"
           /\ outcome.msg \in DecryptionFailedMsgs

\* the kids of a set in ascending lexicographic order
Ascending(S) ==
    CHOOSE q \in [1..Cardinality(S) -> S] :
        \A i, j \in 1..Cardinality(S) : i < j => StrLess(q[i], q[j])

KidSet(to_keys) == {to_keys[i].kid : i \in 1..Len(to_keys)}

\* C5: apv canonicalization: the apv of the protected header returned by
\* ecdh_1pu_encrypt is base64url of the '.'-joined kids in ascending lexicographic
\* order, a value of the set of kids alone, whatever order the mapping lists them in.
C5_ApvCanonical ==
    (call.op = "ecdh_1pu_encrypt" /\ outcome.status = "return")
        => /\ MemberOf(wire[1].protected, "apv")
                = b64url(Join(<<DOT>>, Ascending(KidSet(call.to_keys))))
           \* "b#1.c#2" is "YiMxLmMjMg"
           /\ KidSet(call.to_keys) = {BOB_KID, CAROL_KID}
                => MemberOf(wire[1].protected, "apv")
                     = <<89, 105, 77, 120, 76, 109, 77, 106, 77, 103>>
           \* "b#.b#1" sorts the prefix first
           /\ KidSet(call.to_keys) = {BOB_KID, ERIN_KID}
                => MemberOf(wire[1].protected, "apv")
                     = b64url(ERIN_KID \o <<DOT>> \o BOB_KID)

\* ecdh_1pu_encrypt returned an envelope for Carol and Bob, listed in that order
C5_Witness ==
    /\ call.op = "ecdh_1pu_encrypt" /\ outcome.status = "return"
    /\ Kids(call.to_keys) = <<CAROL_KID, BOB_KID>>
    /\ wire # <<>>

\* the record names type, id and controller
VmComplete == vm.type # "" /\ vm.id # <<>> /\ vm.controller # <<>>

\* C6: kid derivation: an id starting with '#' gives the kid controller immediately
\* followed by id; any other id is the kid verbatim.
C6_KidDerivation ==
    (call.op = "from_verification_method" /\ resolved.status = "return")
        => resolved.value[1].kid =
             IF StartsWith(vm.id, HASH) THEN vm.controller \o vm.id ELSE vm.id

\* C7: atomic encryption failure: a run of ecdh_es_encrypt or ecdh_1pu_encrypt in
\* which a primitive step fails raises CryptoServiceError, never the library's own
\* error, and returns no envelope bytes.
C7_AtomicFailure ==
    (/\ call.op \in {"ecdh_es_encrypt", "ecdh_1pu_encrypt"}
     /\ call.to_keys # <<>>
     /\ call.fault.step # "none")
        => /\ outcome.status = "raise"
           /\ outcome.exc = "CryptoServiceError"
           /\ wire = <<>>

\* C8: empty recipient set: both encrypt methods fail with the no-recipients
\* error, of one and the same kind in both modes, before any key is generated,
\* and return no envelope.
C8_EmptyRecipients ==
    (/\ call.op \in {"ecdh_es_encrypt", "ecdh_1pu_encrypt"}
     /\ call.to_keys = <<>>)
        => /\ outcome.status = "raise"
           /\ outcome.msg = "No message recipients"
           /\ outcome.exc = EcdhEsEncrypt(<<>>, call.message, NoFault).out.exc
           /\ outcome.exc =
                Ecdh1puEncrypt(<<>>, ALICE_KID, Alice, call.message, NoFault).out.exc
           /\ log = <<>>
           /\ wire = <<>>

\* the key bytes a multibase text carries for a legacy type: the decoded bytes when
\* raw, the bytes after the codec when wrapped
MaterialBytes(text) ==
    LET decoded == MultibaseDecode(text) IN
    IF Len(decoded) = RawKeyLen THEN decoded ELSE MulticodecUnwrap(decoded).data

\* multibase texts that carry a well-formed key of the algorithm
GoodMultibaseFor(alg) ==
    {m \in MultibaseMaterials :
        LET decoded == MultibaseDecode(m) IN
        IF Len(decoded) = RawKeyLen THEN FromPublicBytesOk(alg, decoded)
        ELSE /\ MulticodecUnwrap(decoded).codec.name \in DOMAIN codec_to_alg
             /\ codec_to_alg[MulticodecUnwrap(decoded).codec.name] = alg
             /\ FromPublicBytesOk(alg, MulticodecUnwrap(decoded).data)}

\* C9: key-material selection: the key bytes come from exactly one of
\* publicKeyMultibase and publicKeyBase58; a legacy-type record with only one of
\* them resolves from it, one with both or neither is rejected, and a Multikey
\* record resolves from publicKeyMultibase and is rejected only without it.
C9_MaterialSelection ==
    (/\ call.op = "from_verification_method" /\ VmComplete
     /\ vm.publicKeyMultiBase = <<>>)
        => /\ (/\ vm.type \in DOMAIN type_to_alg
               /\ vm.publicKeyMultibase \in GoodMultibaseFor(type_to_alg[vm.type])
               /\ vm.publicKeyBase58 = <<>>)
                  => /\ resolved.status = "return"
                     /\ resolved.value[1].key.public = MaterialBytes(vm.publicKeyMultibase)
           /\ (/\ vm.type \in DOMAIN type_to_alg
               /\ vm.publicKeyMultibase = <<>>
               /\ vm.publicKeyBase58 # <<>>
               /\ FromPublicBytesOk(type_to_alg[vm.type], B58Decode(vm.publicKeyBase58)))
                  => /\ resolved.status = "return"
                     /\ resolved.value[1].key.public = B58Decode(vm.publicKeyBase58)
           /\ (/\ vm.type \in DOMAIN type_to_alg
               /\ (vm.publicKeyMultibase = <<>>) = (vm.publicKeyBase58 = <<>>))
                  => resolved.status = "raise"
           /\ (vm.type = "Multikey" /\ vm.publicKeyMultibase \in SupportedMultikeys)
                  => resolved.status = "return"
           /\ (vm.type = "Multikey" /\ vm.publicKeyMultibase = <<>>)
                  => resolved.status = "raise"

\* C10: multikey round trip: resolving a verification method whose key material is
\* the multikey text of an Ed25519, X25519 or secp256k1 key and reading the key's
\* multikey gives back that text.
C10_MultikeyRoundTrip ==
    (/\ call.op = "from_verification_method" /\ VmComplete
     /\ vm.publicKeyMultibase \in SupportedMultikeys
     /\ vm.publicKeyMultiBase = <<>> /\ vm.publicKeyBase58 = <<>>
     /\ \/ vm.type = "Multikey"
        \/ /\ vm.type \in DOMAIN type_to_alg
           /\ vm.publicKeyMultibase \in GoodMultibaseFor(type_to_alg[vm.type]))
        => /\ resolved.status = "return"
           /\ resolved.value[1].multikey = vm.publicKeyMultibase

\* the multibase text is multicodec-wrapped under a codec that codec_to_alg lacks
ForeignCodec(text) ==
    /\ MultibaseValid(text)
    /\ MulticodecValid(MultibaseDecode(text))
    /\ MulticodecUnwrap(MultibaseDecode(text)).codec.name \notin DOMAIN codec_to_alg

\* C11: unrecognized identifiers are rejected, never defaulted: a record whose type
\* is neither Multikey nor in type_to_alg fails with the unsupported-type error; a
\* record whose multicodec-wrapped material carries a codec outside codec_to_alg
\* fails with the unsupported-algorithm error; every key that is returned has an
\* algorithm of codec_to_alg.
C11_UnrecognizedRejected ==
    (call.op = "from_verification_method" /\ VmComplete)
        => /\ vm.type \notin (DOMAIN type_to_alg \cup {"Multikey"})
                => /\ resolved.status = "raise"
                   /\ resolved.msg = "Unsupported verification method type: {vm_type}"
           /\ (/\ vm.type \in (DOMAIN type_to_alg \cup {"Multikey"})
               /\ vm.publicKeyMultiBase = <<>> /\ vm.publicKeyBase58 = <<>>
               /\ ForeignCodec(vm.publicKeyMultibase)
               /\ Len(MultibaseDecode(vm.publicKeyMultibase)) # RawKeyLen)
                => /\ resolved.status = "raise"
                   /\ resolved.msg = "Unsupported key type: {codec.name}"
           /\ resolved.status = "return"
                => resolved.value[1].key.algorithm \in {"ed25519", "x25519", "k256"}

\* the same statement for records that carry the material under the member name
\* from_verification_method reads
C11_AsRead ==
    (call.op = "from_verification_method" /\ VmComplete)
        => /\ vm.type \notin (DOMAIN type_to_alg \cup {"Multikey"})
                => /\ resolved.status = "raise"
                   /\ resolved.msg = "Unsupported verification method type: {vm_type}"
           /\ (/\ vm.type \in (DOMAIN type_to_alg \cup {"Multikey"})
               /\ vm.publicKeyMultibase = <<>> /\ vm.publicKeyBase58 = <<>>
               /\ ForeignCodec(vm.publicKeyMultiBase)
               /\ Len(MultibaseDecode(vm.publicKeyMultiBase)) # RawKeyLen)
                => /\ resolved.status = "raise"
                   /\ resolved.msg = "Unsupported key type: {codec.name}"
           /\ resolved.status = "return"
                => resolved.value[1].key.algorithm \in {"ed25519", "x25519", "k256"}

\* the positions of the calls of one name in the run's record of calls
At(name) == {i \in 1..Len(log) : log[i].call = name}

\* every call of the first name comes after a call of the second
After(later, earlier) == \A i \in At(later) : \E j \in At(earlier) : j < i

\* C12: step ordering in ecdh_1pu_encrypt: in every run the protected header is set
\* before the payload is encrypted, the payload is encrypted with the protected
\* bytes as AAD before any content key is wrapped, every wrap uses as cc_tag the
\* tag of the payload stored in the envelope, and no recipient entry is added
\* before the payload is set.
C12_StepOrdering ==
    call.op = "ecdh_1pu_encrypt"
        => /\ After("aead_encrypt", "set_protected")
           /\ After("1pu_wrap", "aead_encrypt")
           /\ After("1pu_wrap", "set_payload")
           /\ After("add_recipient", "set_payload")
           /\ \A e \in At("aead_encrypt"), s \in At("set_protected") :
                log[e].aad = ProtectedBytes(log[s].header)
           /\ \A w \in At("1pu_wrap"), p \in At("set_payload") :
                log[w].cc_tag = <<log[p].tag>>
           /\ outcome.status = "return"
                => /\ Cardinality(At("1pu_wrap")) = Len(call.to_keys)
                   /\ \A e \in At("aead_encrypt") : log[e].aad = wire[1].protected
                   /\ \A w \in At("1pu_wrap") : log[w].cc_tag = <<wire[1].tag>>
                   /\ \A i \in 1..Len(wire[1].recipients) :
                        wire[1].recipients[i].encrypted_key.cc_tag = <<wire[1].tag>>

\* ecdh_1pu_encrypt returned an envelope after wrapping the content key twice
C12_Witness ==
    /\ call.op = "ecdh_1pu_encrypt" /\ outcome.status = "return"
    /\ Cardinality(At("1pu_wrap")) = 2
    /\ Len(wire[1].recipients) = 2

\* some recipient key of the call is not on the curve of the sender's key
Divergent ==
    \E i \in 1..Len(call.to_keys) :
        call.to_keys[i].key.key.algorithm # call.sender_key.key.algorithm

\* C13: algorithm consistency in ecdh_1pu_encrypt: in a run that gets as far as the
\* check (the content key and the ephemeral key were generated), a recipient key
\* whose algorithm differs from the sender key's, at whatever position of the
\* mapping, makes the call fail with the inconsistent-recipient-algorithms error
\* and return no envelope; when all algorithms equal the sender's, that error is
\* never raised.
C13_AlgConsistency ==
    (/\ call.op = "ecdh_1pu_encrypt"
     /\ call.fault.step \notin {"cek", "epk"})
        => /\ Divergent
                => /\ outcome = Raise("CryptoServiceError",
                                      "Recipient key types must be consistent")
                   /\ wire = <<>>
                   /\ At("1pu_wrap") = {} /\ At("aead_encrypt") = {}
           /\ ~Divergent
                => outcome.msg # "Recipient key types must be consistent"

\* the second of two recipient keys is the divergent one and the call was refused
C13_Witness ==
    /\ call.op = "ecdh_1pu_encrypt"
    /\ Len(call.to_keys) = 2
    /\ call.to_keys[1].key.key.algorithm = call.sender_key.key.algorithm
    /\ call.to_keys[2].key.key.algorithm # call.sender_key.key.algorithm
    /\ outcome.msg = "Recipient key types must be consistent"

\* the calls that generate an ephemeral key, and those that generate a content key
EphemeralGenerated == {i \in At("generate") : log[i].ephemeral}
ContentKeyGenerated == {i \in At("generate") : ~log[i].ephemeral}

\* C14: shape of every envelope returned by ecdh_es_encrypt: the protected header
\* is exactly alg 'ECDH-ES+A256KW' and enc 'XC20P'; there is one recipient entry per
\* kid of the mapping, in the mapping's order, with pairwise-distinct kids; each
\* header is kid and epk, the public part of an ephemeral key generated for that
\* recipient alone on the recipient's curve; all entries wrap the one content key
\* under which the one ciphertext was produced.
C14_EsEnvelopeShape ==
    (call.op = "ecdh_es_encrypt" /\ outcome.status = "return")
        => LET env == wire[1]
               n == Len(call.to_keys)
               epkOf(i) == Get(env.recipients[i].header, "epk")
           IN
           /\ ParseProtected(env.protected)
                = << <<"alg", "ECDH-ES+A256KW">>, <<"enc", "XC20P">> >>
           /\ \A name \in {"epk", "apu", "apv", "skid"} : ~HasMember(env.protected, name)
           /\ Len(env.recipients) = n
           /\ \A i \in 1..n :
                /\ Len(env.recipients[i].header) = 2
                /\ env.recipients[i].header[1] = <<"kid", call.to_keys[i].kid>>
                /\ env.recipients[i].header[2][1] = "epk"
                /\ epkOf(i).crv = call.to_keys[i].key.key.algorithm
                /\ FromJwkOk(epkOf(i))
                /\ env.recipients[i].encrypted_key.epk = epkOf(i).x
                /\ env.recipients[i].encrypted_key.recip = call.to_keys[i].key.key.public
                /\ env.recipients[i].encrypted_key.cek = env.ciphertext.key
           /\ \A i, j \in 1..n :
                i # j => /\ call.to_keys[i].kid # call.to_keys[j].kid
                         /\ epkOf(i) # epkOf(j)
           /\ Cardinality(EphemeralGenerated) = n
           /\ \A i \in EphemeralGenerated :
                \E k \in 1..n : log[i].alg = call.to_keys[k].key.key.algorithm
           /\ Cardinality(ContentKeyGenerated) = 1
           /\ Cardinality(At("aead_encrypt")) = 1
           /\ \A e \in At("aead_encrypt") : log[e].cek = env.ciphertext.key

\* ecdh_es_encrypt returned an envelope for two recipients on one curve
C14_Witness ==
    /\ call.op = "ecdh_es_encrypt" /\ outcome.status = "return"
    /\ Len(wire[1].recipients) = 2
    /\ call.to_keys[1].key.key.algorithm = call.to_keys[2].key.key.algorithm

\* C15: shape of every envelope returned by ecdh_1pu_encrypt: one ephemeral key is
\* generated per call, whatever the number of recipients; the protected header
\* carries alg 'ECDH-1PU+A256KW', enc 'A256CBC-HS512', apu = base64url(sender kid),
\* apv, epk (that one ephemeral public key) and skid = sender kid; there is one
\* recipient entry per input kid, whose header is exactly kid.
C15_PuEnvelopeShape ==
    (call.op = "ecdh_1pu_encrypt" /\ outcome.status = "return")
        => LET env == wire[1]
               n == Len(call.to_keys)
               protected == ParseProtected(env.protected)
           IN
           /\ Cardinality(EphemeralGenerated) = 1
           /\ \A i \in EphemeralGenerated : log[i].alg = call.sender_key.key.algorithm
           /\ [i \in 1..Len(protected) |-> protected[i][1]]
                = <<"alg", "enc", "apu", "apv", "epk", "skid">>
           /\ Get(protected, "alg") = "ECDH-1PU+A256KW"
           /\ Get(protected, "enc") = "A256CBC-HS512"
           /\ Get(protected, "apu") = b64url(call.sender_kid)
           \* "a#1" is "YSMx"
           /\ call.sender_kid = ALICE_KID => Get(protected, "apu") = <<89, 83, 77, 120>>
           /\ Get(protected, "skid") = call.sender_kid
           /\ Get(protected, "epk").crv = call.sender_key.key.algorithm
           /\ FromJwkOk(Get(protected, "epk"))
           /\ Len(env.recipients) = n
           /\ \A i \in 1..n :
                /\ env.recipients[i].header = << <<"kid", call.to_keys[i].kid>> >>
                /\ env.recipients[i].encrypted_key.epk = Get(protected, "epk").x
                /\ env.recipients[i].encrypted_key.apu = Get(protected, "apu")

\* ecdh_1pu_encrypt returned Alice's envelope for two recipients
C15_Witness ==
    /\ call.op = "ecdh_1pu_encrypt" /\ outcome.status = "return"
    /\ call.sender_kid = ALICE_KID
    /\ Len(wire[1].recipients) = 2
    /\ Cardinality(EphemeralGenerated) = 1

EsContentAlgs == {"A128GCM", "A256GCM", "A128CBC-HS256", "A256CBC-HS512", "XC20P"}

\* the envelope handed to ecdh_es_decrypt names an accepted alg and lists the
\* local kid
EsPastLookup ==
    /\ call.op = "ecdh_es_decrypt"
    /\ HasMember(wire[1].protected, "alg")
    /\ MemberOf(wire[1].protected, "alg") \in {"ECDH-ES+A128KW", "ECDH-ES+A256KW"}
    /\ ~NotListed

\* C16: content-algorithm check in ecdh_es_decrypt: for an envelope with an accepted
\* alg and a recipient entry for the local kid, the call is rejected for its content
\* algorithm exactly when the enc of the protected header is missing or outside
\* the five supported algorithms; the rejection comes before any key material is
\* touched, and an envelope whose enc is supported passes on to the epk check.
C16_EsEncCheck ==
    EsPastLookup
        => LET unsupported ==
                   \/ ~HasMember(wire[1].protected, "enc")
                   \/ MemberOf(wire[1].protected, "enc") \notin EsContentAlgs
           IN
           /\ unsupported
                => /\ outcome = Raise("CryptoServiceError",
                                      "Unsupported ECDH-ES content encryption")
                   /\ NoCryptoAttempted
           /\ ~unsupported
                => outcome.msg # "Unsupported ECDH-ES content encryption"

\* a state in which the protected header has lost its enc, the recipient entry
\* carries one, and ecdh_es_decrypt went on to the key operations
C16_RecipientEncDecides ==
    /\ EsPastLookup
    /\ ~HasMember(wire[1].protected, "enc")
    /\ forged = {"recipient.enc"}
    /\ ~NoCryptoAttempted

\* the envelope handed to ecdh_1pu_decrypt names an accepted alg and enc and lists
\* the local kid
PuPastLookup ==
    /\ call.op = "ecdh_1pu_decrypt"
    /\ HasMember(wire[1].protected, "alg")
    /\ MemberOf(wire[1].protected, "alg") \in {"ECDH-1PU+A128KW", "ECDH-1PU+A256KW"}
    /\ HasMember(wire[1].protected, "enc")
    /\ MemberOf(wire[1].protected, "enc") \in {"A128CBC-HS256", "A256CBC-HS512"}
    /\ ~NotListed

\* C17: ephemeral-key requirement in ecdh_1pu_decrypt: for an envelope with accepted
\* alg and enc and a recipient entry for the local kid, the call fails with the
\* missing-ephemeral-key error exactly when the protected header has no epk; when
\* it has one, that key is the one used for unwrapping, whatever the recipient
\* entry's own header contains.
C17_PuEpkRequired ==
    PuPastLookup
        => /\ ~HasMember(wire[1].protected, "epk")
                => outcome = Raise("CryptoServiceError", "Missing ephemeral key")
           /\ HasMember(wire[1].protected, "epk")
                => /\ outcome.msg # "Missing ephemeral key"
                   /\ \A u \in At("1pu_unwrap") :
                        log[u].epk = FromJwk(MemberOf(wire[1].protected, "epk"))

\* a state in which ecdh_1pu_decrypt unwrapped with an ephemeral key taken from
\* the recipient entry that is not the protected header's
C17_RecipientEpkDecides ==
    /\ PuPastLookup
    /\ HasMember(wire[1].protected, "epk")
    /\ forged = {"recipient.epk:other"}
    /\ \E u \in At("1pu_unwrap") :
         log[u].epk # FromJwk(MemberOf(wire[1].protected, "epk"))

\* the protected header of the envelope passes the validation of ecdh_1pu_decrypt
PuHeaderValid ==
    /\ HasMember(wire[1].protected, "alg")
    /\ MemberOf(wire[1].protected, "alg") \in {"ECDH-1PU+A128KW", "ECDH-1PU+A256KW"}
    /\ HasMember(wire[1].protected, "enc")
    /\ MemberOf(wire[1].protected, "enc") \in {"A128CBC-HS256", "A256CBC-HS512"}

PuValidationMsgs ==
    {"Unsupported ECDH-1PU algorithm", "Unsupported ECDH-1PU content encryption"}

\* C18: header validation in ecdh_1pu_decrypt: the call gets past validation only
\* if the protected header's alg is ECDH-1PU+A128KW or ECDH-1PU+A256KW and its enc
\* is A128CBC-HS256 or A256CBC-HS512; any other or missing alg or enc is rejected
\* before the recipient lookup and before any key operation, so no key unwrap is
\* made with an enc outside the two CBC-HMAC algorithms.
C18_PuHeaderValidation ==
    call.op = "ecdh_1pu_decrypt"
        => /\ ~PuHeaderValid
                => /\ outcome.status = "raise"
                   /\ outcome.exc = "CryptoServiceError"
                   /\ outcome.msg \in PuValidationMsgs
                   /\ outcome # RecipientNotFound
                   /\ NoCryptoAttempted
           /\ PuHeaderValid => outcome.msg \notin PuValidationMsgs
           /\ \A u \in At("1pu_unwrap") :
                log[u].enc_alg \in {"A128CBC-HS256", "A256CBC-HS512"}

\* ecdh_1pu_decrypt refused an envelope of ecdh_1pu_encrypt whose enc was changed to
\* XC20P, though it lists no entry for the local key
C18_Witness ==
    /\ call.op = "ecdh_1pu_decrypt" /\ sent.op = "ecdh_1pu_encrypt"
    /\ HasMember(wire[1].protected, "alg")
    /\ MemberOf(wire[1].protected, "alg") = "ECDH-1PU+A256KW"
    /\ HasMember(wire[1].protected, "enc")
    /\ MemberOf(wire[1].protected, "enc") = "XC20P"
    /\ NotListed
    /\ outcome.msg = "Unsupported ECDH-1PU content encryption"

\* the raw-versus-wrapped rule for a legacy-type record whose only key material is
\* the multibase text m
RawOrWrappedRule(m) ==
    (/\ call.op = "from_verification_method" /\ VmComplete
     /\ vm.type \in DOMAIN type_to_alg
     /\ vm.publicKeyBase58 = <<>>
     /\ m # <<>> /\ MultibaseValid(m))
        => LET alg == type_to_alg[vm.type]
               decoded == MultibaseDecode(m)
               u == MulticodecUnwrap(decoded)
           IN
           /\ (Len(decoded) = RawKeyLen /\ FromPublicBytesOk(alg, decoded))
                => /\ resolved.status = "return"
                   /\ resolved.value[1].key = FromPublicBytes(alg, decoded)
           /\ (/\ Len(decoded) # RawKeyLen
               /\ MulticodecValid(decoded)
               /\ u.codec.name \in DOMAIN codec_to_alg
               /\ FromPublicBytesOk(codec_to_alg[u.codec.name], u.data))
                => IF codec_to_alg[u.codec.name] = alg
                   THEN /\ resolved.status = "return"
                        /\ resolved.value[1].key = FromPublicBytes(alg, u.data)
                   ELSE resolved = Raise("ValueError", "Type and algorithm mismatch")

\* no key is returned for a legacy type on another algorithm than the type's
TypeImpliesAlg ==
    (/\ call.op = "from_verification_method"
     /\ resolved.status = "return"
     /\ vm.type \in DOMAIN type_to_alg)
        => resolved.value[1].key.algorithm = type_to_alg[vm.type]

\* C19: raw-versus-wrapped rule for multibase material under a legacy type:
\* material that decodes to exactly 32 bytes is imported as a raw key under the
\* type-implied algorithm with no codec check; material of any other length is
\* multicodec-wrapped and gives a key only if the codec's algorithm is the
\* type-implied one, the algorithm-mismatch error otherwise; no key is returned
\* whose algorithm differs from the one the legacy type implies.
C19_RawOrWrapped ==
    /\ vm.publicKeyMultiBase = <<>> => RawOrWrappedRule(vm.publicKeyMultibase)
    /\ TypeImpliesAlg

\* the same statement for records that carry the material under the member name
\* from_verification_method reads
C19_AsRead ==
    /\ vm.publicKeyMultibase = <<>> => RawOrWrappedRule(vm.publicKeyMultiBase)
    /\ TypeImpliesAlg

InvalidKeyMaterial == Raise("ValueError", "Invalid key")

\* the key bytes of the multibase text m are refused under the algorithm selected
\* for the record: raw 32 bytes under the type's algorithm, wrapped bytes under
\* the codec's
MultibaseRefused(m) ==
    /\ m # <<>> /\ MultibaseValid(m)
    /\ vm.publicKeyBase58 = <<>>
    /\ LET decoded == MultibaseDecode(m) IN
       \/ /\ vm.type \in DOMAIN type_to_alg
          /\ Len(decoded) = RawKeyLen
          /\ ~FromPublicBytesOk(type_to_alg[vm.type], decoded)
       \/ /\ vm.type \in (DOMAIN type_to_alg \cup {"Multikey"})
          /\ vm.type \in DOMAIN type_to_alg => Len(decoded) # RawKeyLen
          /\ MulticodecValid(decoded)
          /\ MulticodecUnwrap(decoded).codec.name \in DOMAIN codec_to_alg
          /\ ~FromPublicBytesOk(codec_to_alg[MulticodecUnwrap(decoded).codec.name],
                                MulticodecUnwrap(decoded).data)

\* the key bytes of the record's base58 text are refused under the type's algorithm
Base58Refused ==
    /\ vm.type \in DOMAIN type_to_alg
    /\ vm.publicKeyMultibase = <<>> /\ vm.publicKeyMultiBase = <<>>
    /\ vm.publicKeyBase58 # <<>>
    /\ ~FromPublicBytesOk(type_to_alg[vm.type], B58Decode(vm.publicKeyBase58))

\* C20: malformed key bytes are surfaced uniformly: key bytes that the primitive
\* library refuses to import under the selected algorithm make
\* from_verification_method fail with the invalid-key-material error, a ValueError
\* and not the library's own error, on the raw multibase, the wrapped multibase
\* and the base58 path.
C20_MalformedKeyBytes ==
    (call.op = "from_verification_method" /\ VmComplete)
        => /\ (vm.publicKeyMultiBase = <<>> /\ MultibaseRefused(vm.publicKeyMultibase))
                => resolved = InvalidKeyMaterial
           /\ Base58Refused => resolved = InvalidKeyMaterial

\* the base58 path alone
C20_Base58Path ==
    (call.op = "from_verification_method" /\ VmComplete /\ Base58Refused)
        => resolved.exc = "ValueError"

\* the two multibase paths for records that carry the material under the member
\* name from_verification_method reads
C20_MultibaseAsRead ==
    (/\ call.op = "from_verification_method" /\ VmComplete
     /\ vm.publicKeyMultibase = <<>> /\ MultibaseRefused(vm.publicKeyMultiBase))
        => resolved = InvalidKeyMaterial

\* both multibase paths are taken with refused bytes: raw and wrapped
C20_MultibaseAsReadTaken ==
    /\ call.op = "from_verification_method" /\ VmComplete
    /\ vm.publicKeyMultibase = <<>> /\ MultibaseRefused(vm.publicKeyMultiBase)
    /\ Len(MultibaseDecode(vm.publicKeyMultiBase)) = RawKeyLen

\* the wrapped key of the recipient entry for the local kid: what sender_wrap_key
\* was handed for that recipient
LocalWrapped == GetRecipient(FromJson(wire[1]), call.recip_key.kid)[1].encrypted_key

\* ecdh_1pu_decrypt is handed the envelope of ecdh_1pu_encrypt by one of its
\* recipients, with the sender's public key
PuDelivered ==
    /\ call.op = "ecdh_1pu_decrypt" /\ sent.op = "ecdh_1pu_encrypt"
    /\ Addressed
    /\ call.sender_key = PublicOf(sent.sender_key)

\* ecdh_es_decrypt is handed the envelope of ecdh_es_encrypt by one of its
\* recipients
EsDelivered ==
    /\ call.op = "ecdh_es_decrypt" /\ sent.op = "ecdh_es_encrypt"
    /\ Addressed

\* every receiver_unwrap_key call of the run is handed the key-derivation context
\* the local recipient's key was wrapped with
PuContextAgrees ==
    \A u \in At("1pu_unwrap") :
        /\ log[u].alg_id = LocalWrapped.alg_id
        /\ log[u].apu = LocalWrapped.apu
        /\ log[u].apv = LocalWrapped.apv
        /\ log[u].cc_tag = LocalWrapped.cc_tag

EsContextAgrees ==
    \A u \in At("es_unwrap") :
        /\ log[u].alg_id = LocalWrapped.alg_id
        /\ log[u].alg_id = "ECDH-ES+A256KW"
        /\ log[u].apu = LocalWrapped.apu /\ log[u].apu = <<>>
        /\ log[u].apv = LocalWrapped.apv /\ log[u].apv = <<>>
        /\ log[u].epk.public = LocalWrapped.epk

C21_AgreesWhenReached ==
    (tampered = {} /\ forged \subseteq {"recipient.enc", "recipient.epk"})
        => /\ PuDelivered => PuContextAgrees
           /\ EsDelivered => EsContextAgrees

\* such runs reach receiver_unwrap_key in both modes
C21_PuUnwrapReached ==
    /\ PuDelivered /\ tampered = {} /\ forged = {"recipient.epk"}
    /\ At("1pu_unwrap") # {}
    /\ outcome = Return(sent.message)

C21_EsUnwrapReached ==
    /\ EsDelivered /\ tampered = {} /\ forged = {"recipient.enc"}
    /\ At("es_unwrap") # {}
    /\ outcome = Return(sent.message)

====
